---------------------------- MODULE Spec2Model ----------------------------
(***************************************************************************)
(* UltimateLeadGen: the reconciler.                                        *)
(*                                                                         *)
(* POST /api/insert-searches (src/app/api/insert-searches/route.ts) runs   *)
(* checkExistingSearches and then insertSearches (the Supabase client      *)
(* module, src/components/layout/Sidebar.tsx lines 131-249) against the    *)
(* table "Google_Maps Searches".  The generator page's handleInsert        *)
(* (src/app/google-maps-generator/page.tsx) is the endpoint's caller.      *)
(*                                                                         *)
(* A string is a sequence of one-character strings, so that trim and       *)
(* toLowerCase are computed and not assumed.                               *)
(*                                                                         *)
(* The table is a bag of rows [Searches, searchUSED].  The store's part    *)
(* is what the calls in the source ask of PostgREST/PostgreSQL:            *)
(*   .select('Searches').in('Searches', chunk)   exact-match lookup        *)
(*   .upsert(rows, {onConflict: 'Searches'}).select()                      *)
(*        INSERT ... ON CONFLICT ("Searches") DO UPDATE SET <all columns>  *)
(*        RETURNING *: a conflicting row is overwritten by the proposed    *)
(*        row and returned like an inserted one; a batch that proposes the *)
(*        same key twice is rejected whole ("ON CONFLICT DO UPDATE command *)
(*        cannot affect row a second time"); the statement is atomic.      *)
(*   .select('*', {count: 'exact', head: true})   row count                *)
(* Any request may also fail at the transport/store level.                 *)
(***************************************************************************)
EXTENDS Integers, Sequences, FiniteSets, Bags, TLC

\* ------------------------------------------------------------------------
\* Bounds of the model
\* ------------------------------------------------------------------------

\* Calls of the endpoint made in a behaviour, over all clients.
MaxCalls == 3

\* Rows the scraper marks as used.
MaxMarks == 1

\* ------------------------------------------------------------------------
\* Strings
\* ------------------------------------------------------------------------

Range(f) == {f[x] : x \in DOMAIN f}

Min(a, b) == IF a < b THEN a ELSE b

DigitChar == <<"0", "1", "2", "3", "4", "5", "6", "7", "8", "9">>

UpperChars ==
    <<"A", "B", "C", "D", "E", "F", "G", "H", "I", "J", "K", "L", "M",
      "N", "O", "P", "Q", "R", "S", "T", "U", "V", "W", "X", "Y", "Z">>

LowerChars ==
    <<"a", "b", "c", "d", "e", "f", "g", "h", "i", "j", "k", "l", "m",
      "n", "o", "p", "q", "r", "s", "t", "u", "v", "w", "x", "y", "z">>

\* The no-break space U+00A0, one character.
NBSP == "nbsp"

\* The code unit of a character, for the characters the model uses.
CodePoint ==
    [ch \in Range(UpperChars) |-> 64 + CHOOSE i \in 1..26 : UpperChars[i] = ch]
    @@ [ch \in Range(LowerChars) |-> 96 + CHOOSE i \in 1..26 : LowerChars[i] = ch]
    @@ [ch \in Range(DigitChar) |-> 47 + CHOOSE i \in 1..10 : DigitChar[i] = ch]
    @@ ("\t" :> 9) @@ ("\n" :> 10) @@ (" " :> 32) @@ ("!" :> 33) @@ ("'" :> 39)
    @@ ("-" :> 45) @@ (NBSP :> 160)

\* String.prototype.toLowerCase, character by character.
LowerChar(ch) ==
    IF CodePoint[ch] >= 65 /\ CodePoint[ch] <= 90
    THEN LowerChars[CodePoint[ch] - 64]
    ELSE ch

toLowerCase(s) == [i \in 1..Len(s) |-> LowerChar(s[i])]

\* The white space String.prototype.trim removes, among the model's characters.
IsSpace(ch) == ch \in {" ", "\t", "\n", NBSP}

RECURSIVE TrimLeft(_)
TrimLeft(s) ==
    IF s # <<>> /\ IsSpace(Head(s)) THEN TrimLeft(Tail(s)) ELSE s

RECURSIVE TrimRight(_)
TrimRight(s) ==
    IF s # <<>> /\ IsSpace(s[Len(s)])
    THEN TrimRight(SubSeq(s, 1, Len(s) - 1))
    ELSE s

trim(s) == TrimRight(TrimLeft(s))

\* search.trim().toLowerCase(): the canonical form of a search string.
Canonical(s) == toLowerCase(trim(s))

\* The candidate strings of the small scenarios.
sAb    == <<"a", "b">>
sAB    == <<"A", "B">>
sAbSp  == <<"a", "b", " ">>
sCd    == <<"c", "d">>

\* "q000", "q001", ...: the i-th string of a long candidate list.
LongString(i) ==
    <<"q", DigitChar[((i \div 100) % 10) + 1], DigitChar[((i \div 10) % 10) + 1],
      DigitChar[(i % 10) + 1]>>

LongList(n) == [i \in 1..n |-> LongString(i)]

\* ------------------------------------------------------------------------
\* The generator (src/components/layout/Sidebar.tsx lines 251-431)
\* ------------------------------------------------------------------------

\* UK_CITIES: the first 20 entries of the source's array (lines 258-261),
\* then a sample of its later entries in their order: 'Cambridge' (line
\* 262), 'Stoke-on-Trent' (265), 'Cambridge' again and 'Ely' (271) and
\* 'King\'s Lynn' (272).
UK_CITIES ==
    << <<"L", "o", "n", "d", "o", "n">>,
       <<"M", "a", "n", "c", "h", "e", "s", "t", "e", "r">>,
       <<"B", "i", "r", "m", "i", "n", "g", "h", "a", "m">>,
       <<"L", "e", "e", "d", "s">>,
       <<"G", "l", "a", "s", "g", "o", "w">>,
       <<"S", "h", "e", "f", "f", "i", "e", "l", "d">>,
       <<"B", "r", "i", "s", "t", "o", "l">>,
       <<"E", "d", "i", "n", "b", "u", "r", "g", "h">>,
       <<"L", "i", "v", "e", "r", "p", "o", "o", "l">>,
       <<"N", "e", "w", "c", "a", "s", "t", "l", "e">>,
       <<"N", "o", "t", "t", "i", "n", "g", "h", "a", "m">>,
       <<"L", "e", "i", "c", "e", "s", "t", "e", "r">>,
       <<"C", "o", "v", "e", "n", "t", "r", "y">>,
       <<"B", "r", "a", "d", "f", "o", "r", "d">>,
       <<"C", "a", "r", "d", "i", "f", "f">>,
       <<"B", "e", "l", "f", "a", "s", "t">>,
       <<"D", "u", "b", "l", "i", "n">>,
       <<"S", "o", "u", "t", "h", "a", "m", "p", "t", "o", "n">>,
       <<"P", "o", "r", "t", "s", "m", "o", "u", "t", "h">>,
       <<"O", "x", "f", "o", "r", "d">>,
       <<"C", "a", "m", "b", "r", "i", "d", "g", "e">>,
       <<"S", "t", "o", "k", "e", "-", "o", "n", "-", "T", "r", "e", "n", "t">>,
       <<"C", "a", "m", "b", "r", "i", "d", "g", "e">>,
       <<"E", "l", "y">>,
       <<"K", "i", "n", "g", "'", "s", " ", "L", "y", "n", "n">> >>

\* UK_COUNTIES: a sample of the source's array in its order: 'Greater
\* London' (line 297), 'Avon' (299), 'Dumfries and Galloway' (301) and
\* 'Cardiff' (315), which is a city as well.
UK_COUNTIES ==
    << <<"G", "r", "e", "a", "t", "e", "r", " ", "L", "o", "n", "d", "o", "n">>,
       <<"A", "v", "o", "n">>,
       <<"D", "u", "m", "f", "r", "i", "e", "s", " ", "a", "n", "d", " ", "G", "a", "l", "l", "o", "w", "a", "y">>,
       <<"C", "a", "r", "d", "i", "f", "f">> >>

\* UK_CITIES.slice(0, 20)
TopCount == 20

NicheError == "Niche must be between 2 and 50 characters"
LocationError == "At least one location type must be selected"

\* The fixed words of the ten templates.
wIn        == <<" ", "i", "n", " ">>
wSp        == <<" ">>
wBest      == <<"b", "e", "s", "t", " ">>
wNear      == <<" ", "n", "e", "a", "r", " ">>
wServices  == <<" ", "s", "e", "r", "v", "i", "c", "e", "s">>
wTop       == <<"t", "o", "p", " ">>
wUk        == <<" ", "u", "k">>
wFind      == <<"f", "i", "n", "d", " ">>
wCompanies == <<" ", "c", "o", "m", "p", "a", "n", "i", "e", "s", " ">>
wLocal     == <<" ", "l", "o", "c", "a", "l", " ">>

\* The ten strings added for one location, in the order of lines 358-367.
Variations(trimmedNiche, location) ==
    LET n == trimmedNiche
        l == toLowerCase(location)
    IN  << n \o wIn \o l,
           l \o wSp \o n,
           wBest \o n \o wIn \o l,
           n \o wNear \o l,
           l \o wSp \o n \o wServices,
           wTop \o n \o wSp \o l,
           n \o wSp \o l \o wUk,
           wFind \o n \o wSp \o l,
           n \o wCompanies \o l,
           l \o wLocal \o n >>

\* new Set(array), Set.prototype.add for each element in turn: the distinct
\* elements in the order of their first occurrence.
SetOf(xs) ==
    LET first == SelectSeq([i \in 1..Len(xs) |-> i],
                           LAMBDA i : \A j \in 1..(i - 1) : xs[j] # xs[i])
    IN  [k \in 1..Len(first) |-> xs[first[k]]]

\* for (const location of locations) { searches.add(...) ten times }: the
\* strings added, in the order they are added.
Added(trimmedNiche, locations) ==
    [k \in 1..(10 * Len(locations)) |->
        Variations(trimmedNiche, locations[((k - 1) \div 10) + 1])[((k - 1) % 10) + 1]]

\* /^[a-z0-9\s\-]+$/ : \s is the white space trim removes.
InCharClass(ch) ==
    \/ CodePoint[ch] >= 97 /\ CodePoint[ch] <= 122
    \/ CodePoint[ch] >= 48 /\ CodePoint[ch] <= 57
    \/ IsSpace(ch)
    \/ ch = "-"

\* Mutant: any character passes.
MatchesCharClassAny(normalized) == normalized # <<>>

MatchesCharClass(normalized) ==
    /\ normalized # <<>>
    /\ \A i \in 1..Len(normalized) : InCharClass(normalized[i])

\* The length and character rules of lines 375-383 and 420-428.
ValidNormalized(normalized) ==
    /\ ~(Len(normalized) < 6 \/ Len(normalized) > 80)
    /\ MatchesCharClass(normalized)

\* Mutant: a minimum length of 8.
validateSearchLonger(search) ==
    ValidNormalized(Canonical(search)) /\ Len(Canonical(search)) >= 8

\* validateSearch (lines 417-431)
validateSearch(search) == ValidNormalized(Canonical(search))

\* a.includes(city)
Includes(a, city) ==
    \E p \in 1..(Len(a) - Len(city) + 1) :
        /\ city # <<>> => a[p] = city[1]
        /\ SubSeq(a, p, p + Len(city) - 1) = city

\* The locales whose collation String.prototype.localeCompare may use (the
\* runtime's default locale): English, and Czech as a locale that sorts a
\* digraph ("ch", after "h") as one letter.
Locales == {"en", "cs"}

\* Primary collation weights (CLDR root order: white space, punctuation,
\* digits, letters; a letter's case and the kind of a space are not primary
\* differences).
CollationWeight ==
    [ch \in Range(UpperChars) |-> 100 + 2 * (CodePoint[ch] - 64)]
    @@ [ch \in Range(LowerChars) |-> 100 + 2 * (CodePoint[ch] - 96)]
    @@ [ch \in Range(DigitChar) |-> 30 + (CodePoint[ch] - 48)]
    @@ ("\t" :> 1) @@ ("\n" :> 2) @@ (" " :> 10) @@ (NBSP :> 10)
    @@ ("-" :> 20) @@ ("!" :> 22) @@ ("'" :> 24)

\* The weight of "ch" in Czech: after "h", before "i".
ChWeight == CollationWeight["h"] + 1

\* The primary weights of a string's collation elements: one per character,
\* and one for a "ch" in Czech.
CollationKey(s, locale) ==
    LET isCh(i) == /\ locale = "cs"
                   /\ i < Len(s)
                   /\ LowerChar(s[i]) = "c"
                   /\ LowerChar(s[i + 1]) = "h"
        starts  == SelectSeq([i \in 1..Len(s) |-> i],
                             LAMBDA i : ~(i > 1 /\ isCh(i - 1)))
    IN  [k \in 1..Len(starts) |->
            IF isCh(starts[k]) THEN ChWeight ELSE CollationWeight[s[starts[k]]]]

\* Lexicographic comparison of two sequences of numbers: -1, 0 or 1.
CompareWeights(a, b) ==
    LET n     == Min(Len(a), Len(b))
        diffs == SelectSeq([i \in 1..n |-> i], LAMBDA i : a[i] # b[i])
    IN  IF diffs # <<>>
        THEN (IF a[Head(diffs)] < b[Head(diffs)] THEN -1 ELSE 1)
        ELSE IF Len(a) < Len(b) THEN -1
        ELSE IF Len(a) > Len(b) THEN 1
        ELSE 0

CodeUnits(s) == [i \in 1..Len(s) |-> CodePoint[s[i]]]

\* The collator's comparison of a and b, whose primary keys are ka and kb:
\* primary weights first, the remaining differences after.
Collate(a, ka, b, kb) ==
    LET primary == CompareWeights(ka, kb)
    IN  IF primary # 0 THEN primary
        ELSE CompareWeights(CodeUnits(a), CodeUnits(b))

\* a.localeCompare(b)
localeCompare(a, b, locale) ==
    Collate(a, CollationKey(a, locale), b, CollationKey(b, locale))

\* Mutant: splice, which removes what it returns from the array.
Splice(array, n) ==
    [value |-> SubSeq(array, 1, Min(n, Len(array))),
     array |-> SubSeq(array, Min(n, Len(array)) + 1, Len(array))]

\* UK_CITIES.slice(0, 20): the value, and the array it leaves.
Slice(array, n) == [value |-> SubSeq(array, 1, Min(n, Len(array))), array |-> array]

\* UK_CITIES.slice(0, 20).some((city) => a.includes(city.toLowerCase()))
HasTopCity(a, topCities) ==
    \E k \in 1..Len(topCities) : Includes(a, toLowerCase(topCities[k]))

\* An element of the array being sorted with what the comparator computes
\* from it alone.
Decorated(a, topCities, locale) ==
    [s |-> a, hasTopCity |-> HasTopCity(a, topCities), key |-> CollationKey(a, locale)]

\* The comparator of lines 392-406, on decorated elements.
Compare(x, y) ==
    IF x.hasTopCity /\ ~y.hasTopCity THEN -1
    ELSE IF ~x.hasTopCity /\ y.hasTopCity THEN 1
    ELSE Collate(x.s, x.key, y.s, y.key)

ComparesBefore(x, y) == Compare(x, y) < 0

\* unique.sort(comparator)
Sorted(unique, topCities, locale) ==
    LET decorated == [i \in 1..Len(unique) |-> Decorated(unique[i], topCities, locale)]
        sorted    == SortSeq(decorated, ComparesBefore)
    IN  [i \in 1..Len(sorted) |-> sorted[i].s]

\* unique.slice(0, maxSearches), maxSearches a natural number
Truncate(unique, maxSearches) == SubSeq(unique, 1, Min(maxSearches, Len(unique)))

\* Mutant: the niche's length taken before trimming.
NicheLengthUntrimmed(niche) == Len(niche)

\* niche.trim().toLowerCase().length
NicheLength(niche) == Len(Canonical(niche))

\* Mutant: the counties are always among the locations.
LocationsCountiesAlways(cities, counties, includeCities, includeCounties) ==
    (IF includeCities THEN cities ELSE <<>>) \o counties

\* lines 341-347
Locations(cities, counties, includeCities, includeCounties) ==
    (IF includeCities THEN cities ELSE <<>>)
        \o (IF includeCounties THEN counties ELSE <<>>)

\* Mutant: nothing is filtered out.
ValidatedUnfiltered(searches) == searches

\* lines 371-386: the normalized form of the searches that pass the rules.
Validated(searches) ==
    LET normalized == [i \in 1..Len(searches) |-> Canonical(searches[i])]
    IN  SelectSeq(normalized, ValidNormalized)

Thrown(message, cities) ==
    [threw |-> TRUE, error |-> message, result |-> <<>>, cities |-> cities]

\* generateSearches (lines 328-410) with the catalogs and the collation
\* locale it runs with: what it throws or returns, and UK_CITIES after it.
generateSearches(niche, maxSearches, includeCities, includeCounties, cities, counties, locale) ==
    LET trimmedNiche == Canonical(niche)
        locations    == Locations(cities, counties, includeCities, includeCounties)
    IN  IF NicheLength(niche) < 2 \/ NicheLength(niche) > 50
        THEN Thrown(NicheError, cities)
        ELSE IF Len(locations) = 0
        THEN Thrown(LocationError, cities)
        ELSE LET searches  == SetOf(Added(trimmedNiche, locations))
                 validated == Validated(searches)
                 unique    == SetOf(validated)
                 top       == Slice(cities, TopCount)
                 \* the comparator runs when there is something to compare
                 sorted    == IF Len(unique) < 2 THEN unique
                              ELSE Sorted(unique, top.value, locale)
             IN  [threw |-> FALSE, error |-> "",
                  result |-> Truncate(sorted, maxSearches),
                  cities |-> IF Len(unique) < 2 THEN cities ELSE top.array]

\* ------------------------------------------------------------------------
\* The table "Google_Maps Searches"
\* ------------------------------------------------------------------------

Row(s, u) == [Searches |-> s, searchUSED |-> u]

\* Keys present in the table.
Keys(st) == {r.Searches : r \in BagToSet(st)}

\* Number of rows whose Searches column is s.
KeyCount(st, s) == CopiesIn(Row(s, FALSE), st) + CopiesIn(Row(s, TRUE), st)

\* select('*', {count: 'exact', head: true})
CountRows(st) == BagCardinality(st)

\* ... .eq('searchUSED', false)
CountUnusedRows(st) ==
    BagCardinality([r \in {x \in BagToSet(st) : ~x.searchUSED} |-> st[r]])

\* .select('Searches').in('Searches', chunk): the Searches column of the
\* rows whose key is one of the chunk's strings.
SelectIn(st, chunk) == {s \in Keys(st) : s \in Range(chunk)}

NoError == [failed |-> FALSE, message |-> ""]
StoreError(msg) == [failed |-> TRUE, message |-> msg]

TransportMessage == "fetch failed"
ConflictTwiceMessage == "ON CONFLICT DO UPDATE command cannot affect row a second time"

\* Some value stands at two places of the sequence.
HasRepeat(seq) == Cardinality(Range(seq)) # Len(seq)

KeysOf(rows) == {rows[i].Searches : i \in 1..Len(rows)}

\* Mutant: a plain INSERT into a table without the unique key.
UpsertedTableNoConflict(st, rows) == st (+) SetToBag({rows[i] : i \in 1..Len(rows)})

\* ON CONFLICT ("Searches") DO UPDATE: a row with the key exists -> it takes
\* the proposed values; none exists -> the proposed row is inserted.
UpsertedTable(st, rows) ==
    LET ks   == KeysOf(rows)
        kept == {r \in BagToSet(st) : r.Searches \notin ks}
        put  == {rows[i] : i \in 1..Len(rows)}
    IN  [r \in kept \cup put |->
            IF r \in kept THEN st[r]
            ELSE IF KeyCount(st, r.Searches) > 0 THEN KeyCount(st, r.Searches) ELSE 1]

\* The store's answer to .upsert(rows, {onConflict: 'Searches'}).select():
\* the new table, the error, and the rows returned (RETURNING *).
\* `down` is a transport/store failure, `norows` a reply without row data.
UpsertReply(st, rows, down, norows) ==
    IF down
    THEN [table |-> st, error |-> StoreError(TransportMessage), hasData |-> FALSE, data |-> <<>>]
    ELSE IF HasRepeat([i \in 1..Len(rows) |-> rows[i].Searches])
    THEN [table |-> st, error |-> StoreError(ConflictTwiceMessage), hasData |-> FALSE, data |-> <<>>]
    ELSE [table |-> UpsertedTable(st, rows), error |-> NoError,
          hasData |-> ~norows, data |-> IF norows THEN <<>> ELSE rows]

\* Rows of the batch that the statement inserted (their key was absent).
InsertedKeys(st, rows) == {k \in KeysOf(rows) : KeyCount(st, k) = 0}


\* ------------------------------------------------------------------------
\* The Supabase client module (checkExistingSearches, insertSearches, counts)
\* ------------------------------------------------------------------------

\* for (let i = 0; i < searches.length; i += 100)
ChunkSize == 100

\* Mutant: the whole list in one request.
ChunkAtWhole(searches, i) == searches

\* searches.slice(i, i + 100)
ChunkAt(searches, i) == SubSeq(searches, i + 1, Min(i + ChunkSize, Len(searches)))

\* The store's answer to the existence query of one chunk.
SelectReply(st, chunk, down) ==
    IF down
    THEN [error |-> StoreError(TransportMessage), data |-> {}]
    ELSE [error |-> NoError, data |-> SelectIn(st, chunk)]

\* Mutant: the error of an existence query is dropped.
CheckNeverThrows(reply) == FALSE

\* if (error) { throw error }
CheckThrows(reply) == reply.error.failed

\* if (searches.length === 0) return { inserted: 0, skipped: 0, errors: [] }
InsertNothing == [inserted |-> 0, skipped |-> 0, errors |-> <<>>]

\* searches.map((search) => ({ Searches: search, searchUSED: false }))
RowsToInsert(searches) == [i \in 1..Len(searches) |-> Row(searches[i], FALSE)]

\* Mutant: the error branch still counts the rows as inserted.
InsertOutcomeOptimistic(searches, reply) ==
    [inserted |-> Len(searches),
     skipped |-> 0,
     errors |-> IF reply.error.failed THEN <<reply.error.message>> ELSE <<>>]

\* What insertSearches returns after the upsert's reply.
InsertOutcome(searches, reply) ==
    IF reply.error.failed
    THEN [inserted |-> 0, skipped |-> Len(searches), errors |-> <<reply.error.message>>]
    ELSE [inserted |-> IF reply.hasData /\ Len(reply.data) # 0
                       THEN Len(reply.data)
                       ELSE Len(searches),
          skipped |-> 0,
          errors |-> <<>>]

\* The store's answer to a count query: count is null on an error.
CountReply(n, down) ==
    IF down
    THEN [error |-> StoreError(TransportMessage), hasCount |-> FALSE, count |-> 0]
    ELSE [error |-> NoError, hasCount |-> TRUE, count |-> n]

\* Mutant: the error branch returns a sentinel instead of 0.
CountResultSentinel(reply) ==
    IF reply.error.failed THEN -1
    ELSE IF reply.hasCount /\ reply.count # 0 THEN reply.count ELSE 0

\* if (error) return 0; return count || 0
CountResult(reply) ==
    IF reply.error.failed THEN 0
    ELSE IF reply.hasCount /\ reply.count # 0 THEN reply.count ELSE 0

\* ------------------------------------------------------------------------
\* POST /api/insert-searches
\* ------------------------------------------------------------------------

\* Mutant: the length test is missing.
ValidBodyArrayOnly(body) == body.isArray

\* if (!Array.isArray(searches) || searches.length === 0) -> 400
ValidBody(body) == body.isArray /\ Len(body.searches) # 0

\* Mutant: every candidate goes to the write set.
NewSearchesUnfiltered(searches, existingSearches) == searches

\* searches.filter((s) => !existingSearches.has(s))
NewSearches(searches, existingSearches) ==
    SelectSeq(searches, LAMBDA s : s \notin existingSearches)

NoData ==
    [totalRequested |-> 0, alreadyExisted |-> 0, newSearches |-> 0,
     inserted |-> 0, skipped |-> 0, errors |-> <<>>]

NoResponse == [status |-> 0, success |-> FALSE, error |-> "", data |-> NoData]

BadRequest ==
    [status |-> 400, success |-> FALSE, error |-> "Searches must be a non-empty array",
     data |-> NoData]

\* error instanceof Error ? error.message : 'Unknown error'
ServerError(err, isErrorInstance) ==
    [status |-> 500, success |-> FALSE,
     error |-> IF isErrorInstance THEN err.message ELSE "Unknown error",
     data |-> NoData]

\* The summary the endpoint returns.
Summary(searches, existingSearches, newSearches, insertResult) ==
    [status |-> 200, success |-> TRUE, error |-> "",
     data |-> [totalRequested |-> Len(searches),
               alreadyExisted |-> Cardinality(existingSearches),
               newSearches    |-> Len(newSearches),
               inserted       |-> insertResult.inserted,
               skipped        |-> insertResult.skipped,
               errors         |-> insertResult.errors]]

\* ------------------------------------------------------------------------
\* State
\* ------------------------------------------------------------------------

\* The generator page (through handleInsert) and another caller of the endpoint.
Clients == {"page", "api"}

VARIABLES
    store,     \* the table: a bag of rows
    store0,    \* the table at the start (history)
    call,      \* per client: the endpoint's call in progress
    response,  \* per client: the endpoint's last response
    page,      \* the generator page's insertion state
    h,         \* per client: history of the call (what the store saw)
    ncalls,    \* calls of the endpoint made so far
    marks,     \* rows the scraper has marked used
    counted,   \* the last count accessor call: what it returned, and the
               \* table it was answered from (history)
    gen,       \* the generator module: its catalogs, the runtime's locale,
               \* and the calls made (history)
    finder     \* the Auto Business Finder: the trigger endpoint's last request
               \* and the workflow dispatches accepted (history); the page's
               \* state, its timers, its handlers in progress and its poll
               \* requests in flight; the runs' progress rows

vars == <<store, store0, call, response, page, h, ncalls, marks, counted, gen, finder>>

IdleCall ==
    [pc |-> "idle", searches |-> <<>>, offset |-> 0, existing |-> {},
     newSearches |-> <<>>, viaPage |-> FALSE]

\* No earlier call of the client that the present one repeats.
NoPrev == [valid |-> FALSE, grew |-> 0, fresh |-> FALSE]

NoHistory ==
    [calls |-> 0, isArray |-> TRUE, rows0 |-> 0, added |-> 0, wrote |-> {},
     raced |-> {}, down |-> FALSE, nCheck |-> 0, nWrite |-> 0, maxChunk |-> 0,
     queried |-> {}, nQueried |-> 0,
     cerr |-> "", werr |-> "", foreign |-> FALSE, fresh |-> FALSE, prev |-> NoPrev,
     lastOk |-> FALSE]

IdlePage == [inserting |-> FALSE, insertError |-> "", insertShown |-> FALSE,
             insertSuccess |-> [inserted |-> 0, alreadyExisted |-> 0]]

NotCounted == [fn |-> "none", failed |-> FALSE, value |-> 0, table |-> EmptyBag]

\* No call of the generator or of validateSearch yet.
NoGenCall ==
    [made |-> FALSE, niche |-> <<>>, maxSearches |-> 0, includeCities |-> FALSE,
     includeCounties |-> FALSE, threw |-> FALSE, error |-> "", result |-> <<>>]

NoValidation == [made |-> FALSE, search |-> <<>>, value |-> FALSE]

\* Values of a parsed JSON body's fields.
JUndefined == [type |-> "undefined", str |-> <<>>, num |-> 0, bool |-> FALSE]
JNull      == [type |-> "object", str |-> <<>>, num |-> 0, bool |-> FALSE]
JString(s) == [type |-> "string", str |-> s, num |-> 0, bool |-> FALSE]
JNumber(n) == [type |-> "number", str |-> <<>>, num |-> n, bool |-> FALSE]
JBoolean(b) == [type |-> "boolean", str |-> <<>>, num |-> 0, bool |-> b]

\* !value
Falsy(v) ==
    \/ v.type \in {"undefined", "object"}
    \/ v.type = "string" /\ v.str = <<>>
    \/ v.type = "number" /\ v.num = 0
    \/ v.type = "boolean" /\ ~v.bool

\* Mutant: no default for an omitted field.
DefaultNever(v, d) == v

\* const { field = d } = body
DefaultTo(v, d) == IF v.type = "undefined" THEN d ELSE v

NicheRequiredError == "Niche is required and must be a string"
MaxSearchesError == "Max searches must be between 100 and 5000"

\* The message of the TypeError raised by destructuring a body that is no
\* object.
DestructureError == "Cannot destructure property 'niche' of 'body' as it is null."

\* A body that parsed to null.
NullBody ==
    [object |-> FALSE, niche |-> JUndefined, maxSearches |-> JUndefined,
     includeCities |-> JUndefined, includeCounties |-> JUndefined]

GenerateError(message) ==
    [status |-> 400, success |-> FALSE, error |-> message, searches |-> <<>>,
     totalGenerated |-> 0, deduplicatedCount |-> 0, validCount |-> 0]

\* POST /api/generate-searches (src/app/api/scraper-progress/route.ts lines
\* 95-151): the response, and whether generateSearches was called.
GenerateSearchesPost(body, cities, counties, locale) ==
    LET niche           == body.niche
        maxSearches     == DefaultTo(body.maxSearches, JNumber(1000))
        includeCities   == DefaultTo(body.includeCities, JBoolean(TRUE))
        includeCounties == DefaultTo(body.includeCounties, JBoolean(FALSE))
    IN  IF ~body.object
        THEN [called |-> FALSE, cities |-> cities,
              response |-> GenerateError(DestructureError)]
        ELSE IF Falsy(niche) \/ niche.type # "string"
        THEN [called |-> FALSE, cities |-> cities,
              response |-> GenerateError(NicheRequiredError)]
        ELSE IF maxSearches.type # "number" \/ maxSearches.num < 100 \/ maxSearches.num > 5000
        THEN [called |-> FALSE, cities |-> cities,
              response |-> GenerateError(MaxSearchesError)]
        ELSE LET out == generateSearches(niche.str, maxSearches.num, ~Falsy(includeCities),
                                         ~Falsy(includeCounties), cities, counties, locale)
             IN  [called |-> TRUE, cities |-> out.cities,
                  response |->
                     IF out.threw THEN GenerateError(out.error)
                     ELSE [status |-> 200, success |-> TRUE, error |-> "",
                           searches |-> out.result,
                           totalGenerated |-> Len(out.result),
                           deduplicatedCount |-> Cardinality(Range(out.result)),
                           validCount |-> Len(out.result)]]

NoGenerateRequest ==
    [count |-> 0, body |-> NullBody, called |-> FALSE, response |-> GenerateError("")]

\* ---------------------------------------------------------------------
\* POST /api/trigger-scraper (src/app/api/trigger-scraper/route.ts)
\* ---------------------------------------------------------------------

\* The instants the clock can show, and new Date().toISOString() at one.
Times == {1, 2}
IsoTime(n) == <<"T", DigitChar[n + 1]>>

sStartScraper == <<"s", "t", "a", "r", "t", "_", "s", "c", "r", "a", "p", "e", "r">>
sUnknown == <<"u", "n", "k", "n", "o", "w", "n">>

\* String(id) of a run id.
StringOfId(id) == IF id < 10 THEN <<DigitChar[id + 1]>> ELSE <<DigitChar[(id \div 10) + 1], DigitChar[(id % 10) + 1]>>

\* A body that parsed to null: reading body.action throws.
NullTriggerBody == [object |-> FALSE, action |-> JUndefined, timestamp |-> JUndefined]

\* One entry of workflow_runs; id 0 stands for an entry without an id.
WorkflowRun(status, id) == [status |-> status, id |-> id]

\* What the runs listing answers: the request or the parsing of its body
\* throws, the body is null, has no workflow_runs, has a workflow_runs that
\* is no array, or lists runs.
LookupFails(kind) == [kind |-> kind, runs |-> <<>>]
LookupRuns(runs) == [kind |-> "runs", runs |-> runs]

\* Mutant: the key is always generated by the endpoint.
RunKeyFresh(timestamp, now) == JString(IsoTime(now))

\* body.timestamp || new Date().toISOString()
RunKeyOf(timestamp, now) == IF Falsy(timestamp) THEN JString(IsoTime(now)) ELSE timestamp

\* The best-effort lookup of the run: the id of the first listed run that is
\* queued or in progress, 'unknown' when there is none, when it has no id or
\* when anything in the lookup throws.
LookupWorkflowId(lookup) ==
    IF lookup.kind # "runs" THEN sUnknown
    ELSE LET active == SelectSeq(lookup.runs, LAMBDA r : r.status \in {"in_progress", "queued"})
         IN  IF active = <<>> THEN sUnknown
             ELSE IF active[1].id = 0 THEN sUnknown
             ELSE StringOfId(active[1].id)

TriggerError(status, message) ==
    [status |-> status, success |-> FALSE, error |-> message, workflowId |-> <<>>,
     runKey |-> JUndefined, message |-> "", timestamp |-> JUndefined]

\* The handler: the response, the inputs of the workflow dispatches that
\* were accepted, and the number of run lookups made.  env tells whether
\* GH_TOKEN is set, how the dispatch request and the lookup end, and the
\* clock's readings.
TriggerScraperPost(body, env) ==
    LET runKey == RunKeyOf(body.timestamp, env.now)
        inputs == [action |-> sStartScraper, timestamp |-> runKey]
    IN  IF ~body.object
        THEN [response |-> TriggerError(500, "Internal server error"),
              dispatched |-> <<>>, lookups |-> 0]
        ELSE IF body.action # JString(sStartScraper)
        THEN [response |-> TriggerError(400, "Invalid action"),
              dispatched |-> <<>>, lookups |-> 0]
        ELSE IF ~env.token
        THEN [response |-> TriggerError(500, "GitHub token not configured"),
              dispatched |-> <<>>, lookups |-> 0]
        ELSE IF env.dispatch = "throws"
        THEN [response |-> TriggerError(500, "Internal server error"),
              dispatched |-> <<>>, lookups |-> 0]
        ELSE IF env.dispatch = "notOk"
        THEN [response |-> TriggerError(500, "Failed to trigger workflow"),
              dispatched |-> <<>>, lookups |-> 0]
        ELSE [response |->
                 [status |-> 200, success |-> TRUE, error |-> "",
                  workflowId |-> LookupWorkflowId(env.lookup),
                  runKey |-> runKey,
                  message |-> "Scraper workflow triggered successfully",
                  timestamp |-> JString(IsoTime(env.later))],
              dispatched |-> <<inputs>>, lookups |-> 1]

NoTriggerEnv ==
    [token |-> FALSE, dispatch |-> "throws", lookup |-> LookupFails("throws"),
     now |-> 1, later |-> 1]

NoTriggerRequest ==
    [count |-> 0, body |-> NullTriggerBody, env |-> NoTriggerEnv,
     response |-> TriggerError(0, ""), dispatched |-> <<>>]

\* ---------------------------------------------------------------------
\* The Auto Business Finder page (src/unnamed/part_001)
\* ---------------------------------------------------------------------

\* Clicks on Start in a behaviour, and poll requests in flight at a time.
MaxStarts == 2
MaxInFlight == 2

\* new Date().toISOString() at the i-th click on Start; the readings of
\* different clicks differ.
NewRunKey(i) == IsoTime(i)

RunKeys == {NewRunKey(i) : i \in 1..MaxStarts}

\* useState/useRef initial values; null is the empty string here and timer 0
\* is no timer.
InitialUi ==
    [uiStatus |-> "idle", isLoading |-> FALSE, runKey |-> <<>>, pollRef |-> 0,
     mounted |-> TRUE]

\* disabled={isLoading || uiStatus === 'running' || uiStatus === 'initializing'}
StartDisabled(ui) == ui.isLoading \/ ui.uiStatus \in {"running", "initializing"}

\* The state setters of a component do nothing once it is unmounted.
SetState(ui, next) == IF ui.mounted THEN next ELSE ui

\* fetchProgress after its request was answered: what it sets and whether
\* it clears the timer in pollRef.  The answer is "throws" (fetch or
\* res.json() rejected), "notOk", "none" (no progress row) or the row's
\* status.
FetchProgressSets(ui, answer) ==
    IF answer \in {"throws", "notOk"} THEN ui
    ELSE IF answer = "none" THEN [ui EXCEPT !.uiStatus = "initializing"]
    ELSE IF answer = "failed" THEN [ui EXCEPT !.uiStatus = "error", !.isLoading = FALSE]
    ELSE IF answer = "completed" THEN [ui EXCEPT !.uiStatus = "completed", !.isLoading = FALSE]
    ELSE IF answer = "initializing" THEN [ui EXCEPT !.uiStatus = "initializing"]
    ELSE [ui EXCEPT !.uiStatus = "running"]

\* Mutant: a failed run stops the polling as a completed one does.
FetchProgressClearsOnTerminal(answer) == answer \in {"completed", "failed"}

FetchProgressClears(answer) == answer = "completed"

\* The catch block of handleStartScraper.
StartFailed(ui) == [ui EXCEPT !.uiStatus = "error", !.isLoading = FALSE]

NoStart == [pc |-> "none", key |-> <<>>]

\* The Auto Business Finder and the endpoint behind it: no request made, no
\* workflow dispatched, the page just mounted, no run known to the
\* monitoring tables.
InitialFinder ==
    [request |-> NoTriggerRequest, dispatched |-> <<>>,
     ui |-> InitialUi,
     timers |-> {},
     timerKey |-> [i \in 1..MaxStarts |-> <<>>],
     starts |-> [i \in 1..MaxStarts |-> NoStart],
     nstarts |-> 0,
     runs |-> [k \in RunKeys |-> "absent"],
     polls |-> {},
     reported |-> {},
     notTriggered |-> {},
     sawTerminal |-> {}]

\* The generator module as loaded: the catalogs, and no call made.  `first`
\* is the first call made and `last` the latest one; `varied` tells that a
\* call with other arguments than the first one's was made.
InitialGen(locale) ==
    [locale |-> locale, cities |-> UK_CITIES, counties |-> UK_COUNTIES, calls |-> 0,
     first |-> NoGenCall, last |-> NoGenCall, varied |-> FALSE,
     checked |-> NoValidation, request |-> NoGenerateRequest]

\* The strings a table already holds in a state the program can be in.
InitStores ==
    { EmptyBag, SetToBag({Row(sAb, FALSE)}) }

\* The candidate lists submitted: empty, new and known strings, strings that
\* differ by case or by surrounding white space only, and a repeated string.
Inputs ==
    { <<>>, <<sAb>>, <<sAb, sCd>>, <<sAb, sAB>>, <<sCd, sCd>>, <<sCd, sAbSp>> }

\* The lists the page holds: its searches state is what the generator
\* returned, canonical strings without repetition (or nothing yet).
PageInputs == {S \in Inputs : ~HasRepeat(S) /\ \A i \in 1..Len(S) : Canonical(S[i]) = S[i]}

\* The bodies another caller may post: any list, or something that is no list.
Bodies ==
    {[isArray |-> TRUE, searches |-> S] : S \in Inputs}
        \cup {[isArray |-> FALSE, searches |-> <<>>]}

Init ==
    /\ store \in InitStores
    /\ store0 = store
    /\ call = [c \in Clients |-> IdleCall]
    /\ response = [c \in Clients |-> NoResponse]
    /\ page = IdlePage
    /\ h = [c \in Clients |-> NoHistory]
    /\ ncalls = 0
    /\ marks = 0
    /\ counted = NotCounted
    /\ gen = InitialGen("en")
    /\ finder = InitialFinder

\* ------------------------------------------------------------------------
\* Actions
\* ------------------------------------------------------------------------

\* The candidates of c's call that its completed chunks reported absent.
CheckedAbsent(c) ==
    {call[c].searches[j] : j \in 1..Min(call[c].offset, Len(call[c].searches))}
        \ call[c].existing

\* History kept for the other clients when the table changes from st to st2,
\* `born` being the keys that were inserted.
Witnessed(hh, actor, st, st2, born) ==
    [c \in Clients |->
        IF c = actor THEN hh[c]
        ELSE [hh[c] EXCEPT
                !.foreign = @ \/ (st2 # st /\ call[c].pc # "idle"),
                !.lastOk = @ /\ st2 = st,
                !.rows0 = IF st2 = st \/ call[c].pc # "idle" THEN @ ELSE 0,
                !.fresh = IF st2 = st \/ call[c].pc # "idle" THEN @ ELSE FALSE,
                !.raced = IF call[c].pc \in {"checking", "writing"}
                          THEN @ \cup (born \cap CheckedAbsent(c))
                          ELSE @]]

\* The request reaches the endpoint (route.ts lines 12-24).
Post(c, body, viaPage) ==
    /\ call[c].pc = "idle"
    /\ ncalls < MaxCalls
    /\ ncalls' = ncalls + 1
    /\ call' = [call EXCEPT ![c] =
                  [pc |-> IF ValidBody(body) THEN "checking" ELSE "responded",
                   searches |-> body.searches, offset |-> 0, existing |-> {},
                   newSearches |-> <<>>, viaPage |-> viaPage]]
    /\ response' = [response EXCEPT ![c] =
                      IF ValidBody(body) THEN NoResponse ELSE BadRequest]
    /\ h' = [h EXCEPT ![c] =
               [calls |-> @.calls + 1, isArray |-> body.isArray,
                rows0 |-> CountRows(store),
                added |-> 0, wrote |-> {}, raced |-> {}, down |-> FALSE,
                nCheck |-> 0, nWrite |-> 0, maxChunk |-> 0, cerr |-> "", werr |-> "",
                queried |-> {}, nQueried |-> 0,
                foreign |-> FALSE,
                fresh |-> {Canonical(s) : s \in Range(body.searches)}
                              \cap {Canonical(k) : k \in Keys(store)} = {},
                lastOk |-> FALSE,
                \* The call before this one, when it was the same list, met no
                \* store error, and nobody else has written since it began.
                prev |-> IF /\ @.lastOk
                            /\ body.isArray
                            /\ body.searches = call[c].searches
                         THEN [valid |-> TRUE, grew |-> CountRows(store) - @.rows0,
                               fresh |-> @.fresh]
                         ELSE NoPrev]]
    /\ UNCHANGED <<store, store0, gen, finder, marks, counted>>

\* handleInsert, up to the fetch (page.tsx lines 124-143).
HandleInsert(searches) ==
    IF Len(searches) = 0
    THEN /\ call["page"].pc = "idle"
         /\ page' = [page EXCEPT !.insertError = "No searches to insert"]
         /\ UNCHANGED <<store, store0, gen, finder, call, response, h, ncalls, marks, counted>>
    ELSE /\ page' = [inserting |-> TRUE, insertError |-> "", insertShown |-> FALSE,
                     insertSuccess |-> IdlePage.insertSuccess]
         /\ Post("page", [isArray |-> TRUE, searches |-> searches], TRUE)

\* Another caller posts a body to the endpoint.
DirectPost(body) ==
    /\ Post("api", body, FALSE)
    /\ UNCHANGED page

\* One turn of checkExistingSearches' loop; after the last one, the filter
\* and insertSearches up to its store request (Sidebar.tsx lines 150-198,
\* route.ts lines 27-31).
CheckChunk(c, down, isErrorInstance) ==
    /\ call[c].pc = "checking"
    /\ LET cl       == call[c]
           chunk    == ChunkAt(cl.searches, cl.offset)
           reply    == SelectReply(store, chunk, down)
           existing == cl.existing \cup reply.data
           offset   == cl.offset + ChunkSize
           fresh    == NewSearches(cl.searches, existing)
           hist     == [h[c] EXCEPT !.nCheck = @ + 1,
                                    !.maxChunk = IF Len(chunk) > @ THEN Len(chunk) ELSE @,
                                    !.queried = @ \cup Range(chunk),
                                    !.nQueried = @ + Len(chunk),
                                    !.down = @ \/ down,
                                    !.cerr = IF reply.error.failed
                                             THEN reply.error.message ELSE @]
       IN  IF CheckThrows(reply)
           THEN /\ call' = [call EXCEPT ![c].pc = "responded"]
                /\ response' = [response EXCEPT ![c] =
                                  ServerError(reply.error, isErrorInstance)]
                /\ h' = [h EXCEPT ![c] = hist]
           ELSE IF offset < Len(cl.searches)
           THEN /\ call' = [call EXCEPT ![c].offset = offset, ![c].existing = existing]
                /\ h' = [h EXCEPT ![c] = hist]
                /\ UNCHANGED response
           ELSE IF Len(fresh) = 0
           THEN /\ call' = [call EXCEPT ![c].pc = "responded", ![c].offset = offset,
                                        ![c].existing = existing, ![c].newSearches = fresh]
                /\ response' = [response EXCEPT ![c] =
                                  Summary(cl.searches, existing, fresh, InsertNothing)]
                /\ h' = [h EXCEPT ![c] = hist]
           ELSE /\ call' = [call EXCEPT ![c].pc = "writing", ![c].offset = offset,
                                        ![c].existing = existing, ![c].newSearches = fresh]
                /\ h' = [h EXCEPT ![c] = hist]
                /\ UNCHANGED response
    /\ UNCHANGED <<store, store0, gen, finder, page, ncalls, marks, counted>>

\* insertSearches' upsert and the endpoint's summary (Sidebar.tsx lines
\* 194-213, route.ts lines 33-44).
Write(c, down, norows) ==
    /\ call[c].pc = "writing"
    /\ LET cl    == call[c]
           rows  == RowsToInsert(cl.newSearches)
           reply == UpsertReply(store, rows, down, norows)
           born  == IF reply.error.failed THEN {} ELSE InsertedKeys(store, rows)
           hist  == [h[c] EXCEPT !.nWrite = @ + 1,
                                 !.down = @ \/ down,
                                 !.added = CountRows(reply.table) - CountRows(store),
                                 !.wrote = IF reply.error.failed THEN {} ELSE KeysOf(rows),
                                 !.werr = reply.error.message]
       IN  /\ store' = reply.table
           /\ call' = [call EXCEPT ![c].pc = "responded"]
           /\ response' = [response EXCEPT ![c] =
                             Summary(cl.searches, cl.existing, cl.newSearches,
                                     InsertOutcome(cl.newSearches, reply))]
           /\ h' = Witnessed([h EXCEPT ![c] = hist], c, store, reply.table, born)
    /\ UNCHANGED <<store0, gen, finder, page, ncalls, marks, counted>>

\* The caller takes the response; handleInsert's continuation when the page
\* made the call (page.tsx lines 145-162).
Receive(c) ==
    /\ call[c].pc = "responded"
    /\ LET ok == /\ response[c].status = 200
                 /\ response[c].data.errors = <<>>
                 /\ ~h[c].foreign
       IN  /\ call' = [call EXCEPT ![c] =
                         [IdleCall EXCEPT !.searches = IF ok THEN call[c].searches ELSE <<>>]]
           /\ h' = [h EXCEPT ![c] =
                      IF ok
                      THEN [NoHistory EXCEPT
                              !.calls = h[c].calls, !.rows0 = h[c].rows0,
                              !.fresh = h[c].fresh, !.lastOk = TRUE]
                      ELSE [NoHistory EXCEPT !.calls = h[c].calls]]
    /\ response' = [response EXCEPT ![c] = NoResponse]
    /\ page' = IF ~call[c].viaPage THEN page
               ELSE IF response[c].status # 200
               THEN [page EXCEPT !.inserting = FALSE,
                                 !.insertError = IF response[c].error # ""
                                                 THEN response[c].error
                                                 ELSE "Failed to insert searches"]
               ELSE [page EXCEPT !.inserting = FALSE,
                                 !.insertShown = TRUE,
                                 !.insertSuccess =
                                     [inserted |-> response[c].data.inserted,
                                      alreadyExisted |-> response[c].data.alreadyExisted]]
    /\ UNCHANGED <<store, store0, gen, finder, ncalls, marks, counted>>

\* The scraper marks a processed search as used.
MarkUsed(s) ==
    /\ marks < MaxMarks
    /\ CopiesIn(Row(s, FALSE), store) > 0
    /\ LET rest == {r \in BagToSet(store) : r.Searches # s}
           st2  == [r \in rest \cup {Row(s, TRUE)} |->
                       IF r \in rest THEN store[r] ELSE KeyCount(store, s)]
       IN  /\ store' = st2
           /\ h' = Witnessed(h, "scraper", store, st2, {})
    /\ marks' = marks + 1
    /\ UNCHANGED <<store0, gen, finder, call, response, page, ncalls, counted>>

\* getTotalSearchesCount (Sidebar.tsx lines 220-231).
GetTotalSearchesCount(down) ==
    /\ counted' = [fn |-> "total", failed |-> down,
                   value |-> CountResult(CountReply(CountRows(store), down)),
                   table |-> store]
    /\ UNCHANGED <<store, store0, gen, finder, call, response, page, h, ncalls, marks>>

\* getUnusedSearchesCount (Sidebar.tsx lines 237-249).
GetUnusedSearchesCount(down) ==
    /\ counted' = [fn |-> "unused", failed |-> down,
                   value |-> CountResult(CountReply(CountUnusedRows(store), down)),
                   table |-> store]
    /\ UNCHANGED <<store, store0, gen, finder, call, response, page, h, ncalls, marks>>

\* The page, another caller of the endpoint, and the scraper.
Next ==
    \/ \E S \in PageInputs : HandleInsert(S)
    \/ \E b \in Bodies : DirectPost(b)
    \/ \E c \in Clients, down \in BOOLEAN, inst \in BOOLEAN : CheckChunk(c, down, inst)
    \/ \E c \in Clients, down \in BOOLEAN, norows \in BOOLEAN : Write(c, down, norows)
    \/ \E c \in Clients : Receive(c)
    \/ \E s \in Keys(store) : MarkUsed(s)

Spec == Init /\ [][Next]_vars

\* The page, the scraper, and the count accessors.
NextCounts ==
    \/ \E S \in PageInputs : HandleInsert(S)
    \/ \E down \in BOOLEAN, inst \in BOOLEAN : CheckChunk("page", down, inst)
    \/ \E down \in BOOLEAN, norows \in BOOLEAN : Write("page", down, norows)
    \/ Receive("page")
    \/ \E s \in Keys(store) : MarkUsed(s)
    \/ \E down \in BOOLEAN : GetTotalSearchesCount(down)
    \/ \E down \in BOOLEAN : GetUnusedSearchesCount(down)

SpecCounts == Init /\ [][NextCounts]_vars

\* Candidate lists at the chunk boundary: one chunk exactly, and one string more.
LongInputs == {LongList(ChunkSize), LongList(ChunkSize + 1)}

\* Tables that hold some of the long lists' strings, in different chunks.
LongStores ==
    { EmptyBag,
      SetToBag({Row(LongString(1), FALSE), Row(LongString(ChunkSize), TRUE),
                Row(LongString(ChunkSize + 1), FALSE)}) }

InitChunk ==
    /\ store \in LongStores
    /\ store0 = store
    /\ call = [c \in Clients |-> IdleCall]
    /\ response = [c \in Clients |-> NoResponse]
    /\ page = IdlePage
    /\ h = [c \in Clients |-> NoHistory]
    /\ ncalls = 0
    /\ marks = 0
    /\ counted = NotCounted
    /\ gen = InitialGen("en")
    /\ finder = InitialFinder

\* The page and another caller, submitting lists of more than one chunk.
NextChunk ==
    \/ \E S \in LongInputs : HandleInsert(S)
    \/ \E S \in LongInputs : DirectPost([isArray |-> TRUE, searches |-> S])
    \/ \E c \in Clients, down \in BOOLEAN, inst \in BOOLEAN : CheckChunk(c, down, inst)
    \/ \E c \in Clients, down \in BOOLEAN, norows \in BOOLEAN : Write(c, down, norows)
    \/ \E c \in Clients : Receive(c)

SpecChunk == InitChunk /\ [][NextChunk]_vars

\* ------------------------------------------------------------------------
\* The generator's calls
\* ------------------------------------------------------------------------

\* Calls of generateSearches in a behaviour that explores its inputs.
MaxGenCalls == 1

\* Calls of generateSearches in a behaviour that repeats calls.
MaxRepeatCalls == 3

\* Niches: of 1, 2, 50 and 51 characters, padded with white space, with
\* capitals, with a character that no search may hold, and with white space
\* other than the space inside.
nA      == <<"a">>
nAb     == <<"a", "b">>
nPadA   == <<" ", "a", "\t", " ">>
nX50    == [i \in 1..50 |-> "x"]
nX51    == [i \in 1..51 |-> "x"]
nPadX50 == <<" ">> \o nX50 \o <<" ", "\n">>
nCh     == <<"C", "h">>
nBang   == <<"a", "!">>
nNbsp   == <<"l", NBSP, "x">>

nRoofers == <<"r", "o", "o", "f", "e", "r", "s">>

ShortNiches == {nA, nAb, nPadA, nCh, nBang, nNbsp}
LongNiches == {nX50, nX51, nPadX50}

\* maxSearches: one result, the endpoint's minimum, and the default.
MaxSearchesValues == {1, 100, 1000}

\* The strings given to validateSearch.
vShort     == <<"a", "b">>
vBath      == <<"p", "l", "u", "m", "b", "e", "r", "s", " ", "i", "n", " ", "b", "a", "t", "h">>
vBang      == <<"p", "l", "u", "m", "b", "e", "r", "s", "!", " ", "i", "n", " ", "b", "a", "t", "h">>
vTab       == <<"p", "l", "u", "m", "b", "e", "r", "s", "\t", "i", "n", " ", "b", "a", "t", "h">>
vNbsp      == <<"e", "l", "y", NBSP, "a", "b">>
vCapitals  == <<" ", " ", "E", "l", "y", "-", "2", " ", "A", "B", " ">>
vFive      == <<" ", "e", "l", "y", " ", "a", " ">>
vSix       == <<"e", "l", "y", " ", "a", "b">>
vEighty    == [i \in 1..80 |-> "x"]
vEightyOne == [i \in 1..81 |-> "x"]
vSpaces    == <<" ", " ", " ", " ", " ", " ", " ">>

SearchesToValidate ==
    {vShort, vBath, vBang, vTab, vNbsp, vCapitals, vFive, vSix, vEighty,
     vEightyOne, vSpaces}

\* The arguments of the calls explored: the short niches with every
\* combination of options, the long ones with the counties or with nothing,
\* and 'roofers' with the defaults.
GenInputs ==
    (ShortNiches \X MaxSearchesValues \X BOOLEAN \X BOOLEAN)
        \cup (LongNiches \X {100} \X {FALSE} \X BOOLEAN)
        \cup {<<nRoofers, 1000, TRUE, FALSE>>}

\* The arguments of the calls repeated.
RepeatInputs == {nA, nCh} \X {1, 100} \X {FALSE} \X BOOLEAN

SameArguments(x, y) ==
    /\ x.niche = y.niche
    /\ x.maxSearches = y.maxSearches
    /\ x.includeCities = y.includeCities
    /\ x.includeCounties = y.includeCounties

\* One call of generateSearches.
Generate(niche, maxSearches, includeCities, includeCounties) ==
    LET out == generateSearches(niche, maxSearches, includeCities, includeCounties,
                                gen.cities, gen.counties, gen.locale)
        rec == [made |-> TRUE, niche |-> niche, maxSearches |-> maxSearches,
                includeCities |-> includeCities, includeCounties |-> includeCounties,
                threw |-> out.threw, error |-> out.error, result |-> out.result]
    IN  /\ gen' = [gen EXCEPT !.calls = @ + 1,
                              !.cities = out.cities,
                              !.last = rec,
                              !.first = IF @.made THEN @ ELSE rec,
                              !.varied = @ \/ (gen.first.made /\ ~SameArguments(gen.first, rec))]
        /\ UNCHANGED <<store, store0, call, response, page, h, ncalls, marks, counted, finder>>

\* One call of validateSearch.
ValidateSearch(search) ==
    /\ gen' = [gen EXCEPT !.checked =
                 [made |-> TRUE, search |-> search, value |-> validateSearch(search)]]
    /\ UNCHANGED <<store, store0, call, response, page, h, ncalls, marks, counted, finder>>

InitGen ==
    /\ store = EmptyBag
    /\ store0 = store
    /\ call = [c \in Clients |-> IdleCall]
    /\ response = [c \in Clients |-> NoResponse]
    /\ page = IdlePage
    /\ h = [c \in Clients |-> NoHistory]
    /\ ncalls = 0
    /\ marks = 0
    /\ counted = NotCounted
    /\ \E locale \in Locales : gen = InitialGen(locale)
    /\ finder = InitialFinder

\* The generator over its inputs, and validateSearch on strings supplied
\* after a generation.
NextGen ==
    \/ /\ gen.calls < MaxGenCalls
       /\ \E in \in GenInputs : Generate(in[1], in[2], in[3], in[4])
    \/ /\ gen.calls > 0
       /\ \E search \in SearchesToValidate : ValidateSearch(search)

SpecGen == InitGen /\ [][NextGen]_vars

\* Calls repeated, with other calls in between.
NextRepeat ==
    /\ gen.calls < MaxRepeatCalls
    /\ \E in \in RepeatInputs : Generate(in[1], in[2], in[3], in[4])

SpecRepeat == InitGen /\ [][NextRepeat]_vars

\* Requests to the generate endpoint in a behaviour.
MaxRequests == 1

\* The bodies posted to the generate endpoint: the niche missing, not a
\* string, empty, too short or valid; maxSearches missing, not a number, or
\* a number around the two limits; the two flags missing or given.
GenerateBodies ==
    {NullBody} \cup
    [object : {TRUE},
     niche : {JUndefined, JNumber(5), JString(<<>>), JString(nA), JString(nAb)},
     maxSearches : {JUndefined, JNull, JString(<<"1", "0", "0">>), JNumber(99),
                    JNumber(100), JNumber(5000), JNumber(5001)},
     includeCities : {JUndefined, JBoolean(TRUE), JBoolean(FALSE)},
     includeCounties : {JUndefined, JBoolean(TRUE), JBoolean(FALSE)}]

\* One request to the generate endpoint.
PostGenerate(body) ==
    LET out == GenerateSearchesPost(body, gen.cities, gen.counties, gen.locale)
    IN  /\ gen' = [gen EXCEPT !.cities = out.cities,
                              !.request = [count |-> @.count + 1, body |-> body,
                                           called |-> out.called,
                                           response |-> out.response]]
        /\ UNCHANGED <<store, store0, call, response, page, h, ncalls, marks, counted, finder>>

NextEndpoint ==
    /\ gen.request.count < MaxRequests
    /\ \E body \in GenerateBodies : PostGenerate(body)

SpecEndpoint == InitGen /\ [][NextEndpoint]_vars

\* ------------------------------------------------------------------------
\* Properties
\* ------------------------------------------------------------------------

Responded(c) == call[c].pc = "responded"

\* The call returned an outcome (the endpoint's summary).
HasOutcome(c) == Responded(c) /\ response[c].status = 200

\* The spec's de-duplication: the canonical forms of the candidates.
Dedup(S) == {Canonical(s) : s \in Range(S)}

\* C1: a call that repeats the client's previous list, with no store error
\* and no other writer since that call began, reports inserted = 0 and
\* alreadyExisted = |dedup(S)| and leaves the row count as it found it, and
\* the previous call grew the table by |dedup(S)| rows.  Stated for lists
\* that were new to the table (in canonical form) before the first call.
C1_SequentialIdempotence ==
    \A c \in Clients :
        ( /\ HasOutcome(c)
          /\ response[c].data.errors = <<>>
          /\ ~h[c].foreign
          /\ h[c].prev.valid
          /\ h[c].prev.fresh )
        => /\ h[c].prev.grew = Cardinality(Dedup(call[c].searches))
           /\ response[c].data.inserted = 0
           /\ response[c].data.alreadyExisted = Cardinality(Dedup(call[c].searches))
           /\ CountRows(store) = h[c].rows0

\* The table after the lists A and B were reconciled into the table st.
Converged(st, A, B) ==
    st (+) SetToBag({Row(s, FALSE) : s \in (Range(A) \cup Range(B)) \ Keys(st)})

\* Both clients have made one call each, nothing else has written, and
\* neither call met a store failure.
TwoCallsDone ==
    /\ ncalls = 2
    /\ marks = 0
    /\ \A c \in Clients :
          /\ h[c].calls = 1
          /\ HasOutcome(c)
          /\ response[c].data.errors = <<>>

\* C2: when two calls with lists A and B have both ended without a store
\* failure, however their checks and writes interleaved, the table is the
\* previous table plus one row for every string of A \cup B that it lacked,
\* and every string of A \cup B has exactly one row.
C2_Convergence ==
    TwoCallsDone =>
        /\ store = Converged(store0, call["page"].searches, call["api"].searches)
        /\ \A s \in Range(call["page"].searches) \cup Range(call["api"].searches) :
              KeyCount(store, s) = 1

\* Two overlapping calls ended, one of which wrote a string the other
\* inserted after the first one's check.
C2_Witness ==
    /\ TwoCallsDone
    /\ Range(call["page"].searches) \cap Range(call["api"].searches) # {}
    /\ \E c \in Clients : h[c].raced # {} /\ h[c].nWrite = 1

\* C3: when another writer inserted strings between a call's existence
\* check (which reported them absent) and its write, the write does not
\* fail, each such string has exactly one row, and the call does not count
\* them as inserted.  Stated for lists without a repeated string and
\* writes that the store did not fail for a reason of its own.
C3_RaceTreatedAsPresent ==
    \A c \in Clients :
        ( /\ Responded(c)
          /\ h[c].nWrite = 1
          /\ h[c].raced # {}
          /\ ~h[c].down
          /\ ~HasRepeat(call[c].searches) )
        => /\ response[c].status = 200
           /\ response[c].data.errors = <<>>
           /\ \A s \in h[c].raced : KeyCount(store, s) = 1
           /\ response[c].data.inserted + Cardinality(h[c].raced)
                 <= response[c].data.newSearches

\* C4: for every call that returns an outcome,
\* inserted + alreadyExisted + errors.length is the number of distinct
\* candidates submitted (distinct in canonical form).
C4_AccountingEveryCall ==
    \A c \in Clients :
        HasOutcome(c) =>
            response[c].data.inserted + response[c].data.alreadyExisted
                + Len(response[c].data.errors)
              = Cardinality(Dedup(call[c].searches))

\* C5: the inserted count of a call is at most the number of rows the call
\* added to the table.
C5_InsertedNeverExceedsAdded ==
    \A c \in Clients :
        HasOutcome(c) => response[c].data.inserted <= h[c].added

\* C6: when the store rejects the write, the call returns its summary (it
\* does not raise), with inserted = 0 and the store's error text as the only
\* entry of errors.
C6_WriteRejected ==
    \A c \in Clients :
        (Responded(c) /\ h[c].werr # "")
        => /\ response[c].status = 200
           /\ response[c].data.inserted = 0
           /\ response[c].data.errors = <<h[c].werr>>

\* The store rejected a call's write.
C6_Witness ==
    \E c \in Clients : Responded(c) /\ h[c].nWrite = 1 /\ h[c].werr # ""

\* C7: a call whose write failed has a non-empty errors list, is not
\* reported as a success by the endpoint, and the page that made it shows
\* an error and no success message when it takes the response.
C7_WriteFailureSurfaced ==
    [][ \A c \in Clients :
          (Responded(c) /\ h[c].werr # "" /\ call'[c].pc = "idle")
          => /\ response[c].data.errors # <<>>
             /\ ~response[c].success
             /\ call[c].viaPage => (page'.insertError # "" /\ ~page'.insertShown) ]_vars

\* C8: when the store fails on an existence-check chunk, the call ends with
\* the endpoint's error response, the failing request was its last request
\* (no later chunk, no write), and the call has changed nothing in the table.
C8_CheckFailureStops ==
    \A c \in Clients :
        (Responded(c) /\ h[c].cerr # "")
        => /\ response[c].status = 500
           /\ ~response[c].success
           /\ response[c].error \in {h[c].cerr, "Unknown error"}
           /\ h[c].nCheck = (call[c].offset \div ChunkSize) + 1
           /\ h[c].nWrite = 0
           /\ h[c].wrote = {}
           /\ h[c].added = 0

\* The store failed on a chunk that was not the list's last one.
C8_Witness ==
    \E c \in Clients :
        /\ Responded(c)
        /\ h[c].cerr # ""
        /\ call[c].offset + ChunkSize < Len(call[c].searches)

\* C9: a count accessor returns a natural number: 0 when the store reported
\* an error, and otherwise the number of rows (of rows whose used flag is
\* false) of the table it was answered from.
C9_CountAccessors ==
    counted.fn # "none" =>
        /\ counted.value \in Nat
        /\ counted.failed => counted.value = 0
        /\ (~counted.failed /\ counted.fn = "total")
              => counted.value = CountRows(counted.table)
        /\ (~counted.failed /\ counted.fn = "unused")
              => counted.value = CountUnusedRows(counted.table)

\* Both outcomes of an accessor on a table with rows: an error, and a count
\* of unused rows that differs from the count of all rows.
C9_Witness ==
    \/ counted.fn = "total" /\ counted.failed /\ CountRows(counted.table) > 0
    \/ /\ counted.fn = "unused"
       /\ ~counted.failed
       /\ counted.value > 0
       /\ counted.value < CountRows(counted.table)

\* C10 as claimed: a call with an empty candidate list returns the
\* zero-filled outcome and sends no request to the store.
C10_EmptyZeroFilled ==
    \A c \in Clients :
        (Responded(c) /\ h[c].isArray /\ call[c].searches = <<>>)
        => /\ response[c].status = 200
           /\ response[c].data.inserted = 0
           /\ response[c].data.alreadyExisted = 0
           /\ response[c].data.errors = <<>>
           /\ h[c].nCheck = 0
           /\ h[c].nWrite = 0

\* C10 as amended: a call with an empty candidate list sends no request to
\* the store and is answered with the 400 error; and a call that has nothing
\* to write sends no write request and reports inserted = 0 and no errors.
C10_EmptyRejectedWithoutStore ==
    \A c \in Clients :
        /\ (Responded(c) /\ h[c].isArray /\ call[c].searches = <<>>)
           => /\ response[c] = BadRequest
              /\ h[c].nCheck = 0
              /\ h[c].nWrite = 0
              /\ h[c].added = 0
        /\ (HasOutcome(c) /\ call[c].newSearches = <<>>)
           => /\ h[c].nWrite = 0
              /\ response[c].data.inserted = 0
              /\ response[c].data.skipped = 0
              /\ response[c].data.errors = <<>>

\* An empty list was posted and answered.
C10_Witness ==
    \E c \in Clients : Responded(c) /\ h[c].isArray /\ call[c].searches = <<>>

\* C11: the strings a call checks and writes are the distinct canonical
\* forms (trim + lowercase) of its candidates: no more strings are checked
\* than there are canonical forms, every string of the write set is in
\* canonical form, and no two of them have the same canonical form.
C11_CanonicalDedup ==
    \A c \in Clients :
        call[c].pc \in {"writing", "responded"}
        => LET W == call[c].newSearches
           IN  /\ h[c].nQueried <= Cardinality(Dedup(call[c].searches))
               /\ \A i \in 1..Len(W) : Canonical(W[i]) = W[i]
               /\ \A i, j \in 1..Len(W) :
                     i # j => Canonical(W[i]) # Canonical(W[j])

\* C12: every existence query of a call carries at most 100 strings.
C12_ChunkAtMost100 ==
    \A c \in Clients : h[c].maxChunk <= 100

\* A list of 101 strings was checked, in two requests.
C12_Witness ==
    \E c \in Clients :
        /\ Len(call[c].searches) = ChunkSize + 1
        /\ h[c].nCheck = 2
        /\ h[c].cerr = ""

\* The call's existence checks are complete and nothing was written by the
\* call or by anyone else since it began.
CheckedUndisturbed(c) ==
    /\ \/ call[c].pc = "writing"
       \/ call[c].pc = "responded" /\ h[c].cerr = "" /\ h[c].nWrite = 0
    /\ ~h[c].foreign

\* C13: against an unchanging table every candidate is queried in exactly
\* one chunk, the accumulated existing set is the set of candidates the
\* table holds, and the write set is the candidates it does not hold, in
\* the order submitted.
C13_ChunkingKeepsPartition ==
    \A c \in Clients :
        CheckedUndisturbed(c)
        => LET S == call[c].searches
           IN  /\ h[c].queried = Range(S)
               /\ h[c].nQueried = Len(S)
               /\ h[c].nCheck = (Len(S) + ChunkSize - 1) \div ChunkSize
               /\ call[c].existing = Range(S) \cap Keys(store)
               /\ call[c].newSearches = SelectSeq(S, LAMBDA s : s \notin Keys(store))

\* A list of 101 strings, some of them in the table in either chunk, has
\* been checked.
C13_Witness ==
    \E c \in Clients :
        /\ CheckedUndisturbed(c)
        /\ Len(call[c].searches) = ChunkSize + 1
        /\ LongString(1) \in call[c].existing
        /\ LongString(ChunkSize + 1) \in call[c].existing
        /\ Len(call[c].newSearches) = ChunkSize - 2

\* The characters the specification allows in a search: a-z, 0-9, the
\* space and the hyphen.
AllowedChar(ch) ==
    \/ ch \in Range(LowerChars)
    \/ ch \in Range(DigitChar)
    \/ ch \in {" ", "-"}

\* The latest call of the generator returned a result.
Returned == gen.last.made /\ ~gen.last.threw

\* C14: the sequence returned for a valid niche with a location type
\* selected holds no string twice, and each of its elements has a trimmed
\* lower-case length in [6,80] and only the characters a-z, 0-9, space and
\* hyphen.
C14_UniqueAndValid ==
    Returned =>
        LET r == gen.last.result
        IN  /\ \A i, j \in 1..Len(r) : i # j => r[i] # r[j]
            /\ \A i \in 1..Len(r) :
                  /\ Len(Canonical(r[i])) >= 6
                  /\ Len(Canonical(r[i])) <= 80
                  /\ \A k \in 1..Len(r[i]) : AllowedChar(r[i][k])

\* The valid unique candidates of a call: the trimmed lower-case forms of
\* the ten variations of every selected location that have a length in
\* [6,80] and only allowed characters.
ValidUniqueCandidates(niche, includeCities, includeCounties) ==
    LET locations == (IF includeCities THEN Range(UK_CITIES) ELSE {})
                        \cup (IF includeCounties THEN Range(UK_COUNTIES) ELSE {})
        all == UNION {Range(Variations(Canonical(niche), l)) : l \in locations}
    IN  {c \in {Canonical(v) : v \in all} :
            /\ Len(c) >= 6
            /\ Len(c) <= 80
            /\ \A k \in 1..Len(c) : AllowedChar(c[k])}

\* C15: the length of the returned sequence is the smaller of maxSearches
\* and the number of valid unique candidates.
C15_LengthIsMin ==
    Returned =>
        Len(gen.last.result) =
            Min(gen.last.maxSearches,
                Cardinality(ValidUniqueCandidates(gen.last.niche,
                    gen.last.includeCities, gen.last.includeCounties)))

\* The string holds one of the first 20 city names, lower-cased.
InTopTier(s) ==
    \E k \in 1..Min(20, Len(UK_CITIES)) : Includes(s, toLowerCase(UK_CITIES[k]))

\* a precedes b in lexicographic code-point order.
CodePointBefore(a, b) == CompareWeights(CodeUnits(a), CodeUnits(b)) < 0

\* C16: in the returned sequence no element without a top-20 city name
\* precedes an element with one, and two elements of the same tier stand
\* in ascending code-point order.
C16_PriorityOrder ==
    Returned =>
        LET r    == gen.last.result
            top  == Range(SelectSeq([i \in 1..Len(r) |-> i], LAMBDA i : InTopTier(r[i])))
            rest == (1..Len(r)) \ top
        IN  /\ \A i \in rest, j \in top : ~(i < j)
            /\ \A i, j \in top : i < j => CodePointBefore(r[i], r[j])
            /\ \A i, j \in rest : i < j => CodePointBefore(r[i], r[j])

ValidNiche(niche) == Len(Canonical(niche)) >= 2 /\ Len(Canonical(niche)) <= 50

\* C18: generateSearches throws the niche error, and returns nothing,
\* exactly when the niche's trimmed lower-case length is below 2 or above
\* 50: 'a', a padded 'a' and 51 characters fail, 2 and 50 characters and a
\* padded niche of 50 characters do not.
C18_InvalidNiche ==
    gen.last.made =>
        /\ (gen.last.threw /\ gen.last.error = NicheError) <=> ~ValidNiche(gen.last.niche)
        /\ gen.last.threw => gen.last.result = <<>>
        /\ gen.last.niche \in {nA, nPadA, nX51} => gen.last.error = NicheError
        /\ gen.last.niche \in {nAb, nX50, nPadX50} => gen.last.error # NicheError

\* A niche of one character between white space was refused.
C18_Witness ==
    /\ gen.last.made
    /\ gen.last.niche = nPadA
    /\ gen.last.threw
    /\ gen.last.error = NicheError

\* C19: with a valid niche, generateSearches throws the location error and
\* returns nothing when neither cities nor counties are selected, and does
\* not throw when one of them is.
C19_LocationSelection ==
    (gen.last.made /\ ValidNiche(gen.last.niche)) =>
        IF ~gen.last.includeCities /\ ~gen.last.includeCounties
        THEN /\ gen.last.threw
             /\ gen.last.error = LocationError
             /\ gen.last.result = <<>>
        ELSE ~gen.last.threw

\* A call with a valid niche and no location type selected was refused.
C19_Witness ==
    /\ gen.last.made
    /\ ValidNiche(gen.last.niche)
    /\ ~gen.last.includeCities /\ ~gen.last.includeCounties
    /\ gen.last.error = LocationError

\* C20: validateSearch(s) is true exactly when the trimmed lower-case s has
\* a length in [6,80] and only the characters a-z, 0-9, space and hyphen;
\* 'ab' and 'plumbers! in bath' are false, 'plumbers in bath' is true.
C20_ValidateSearch ==
    gen.checked.made =>
        LET s == Canonical(gen.checked.search)
        IN  /\ gen.checked.value <=>
                  /\ Len(s) >= 6
                  /\ Len(s) <= 80
                  /\ \A k \in 1..Len(s) : AllowedChar(s[k])
            /\ gen.checked.search \in {vShort, vBang} => ~gen.checked.value
            /\ gen.checked.search = vBath => gen.checked.value

\* The strings the latest call added to its set, before validation.
CandidatesOfLast ==
    Range(Added(Canonical(gen.last.niche),
                Locations(UK_CITIES, UK_COUNTIES,
                          gen.last.includeCities, gen.last.includeCounties)))

\* The latest call returned everything it retained (nothing was cut off).
NotTruncated == Returned /\ Len(gen.last.result) < gen.last.maxSearches

\* C21: validateSearch is true of every string generateSearches returns,
\* and a candidate is retained by generateSearches (is in the result when
\* nothing was cut off) exactly when validateSearch is true of it.
C21_SameRule ==
    /\ Returned => \A i \in 1..Len(gen.last.result) : validateSearch(gen.last.result[i])
    /\ NotTruncated =>
          \A c \in CandidatesOfLast :
              (Canonical(c) \in Range(gen.last.result)) <=> validateSearch(c)

\* A call that cut nothing off retained some candidates and dropped others.
C21_Witness ==
    /\ NotTruncated
    /\ \E c \in CandidatesOfLast : validateSearch(c)
    /\ \E c \in CandidatesOfLast : ~validateSearch(c)

\* a sorts before b in the specified order: the top tier first, then by
\* code points.
SortsBefore(a, b) ==
    \/ InTopTier(a) /\ ~InTopTier(b)
    \/ InTopTier(a) = InTopTier(b) /\ CodePointBefore(a, b)

rRoofersInLondon == <<"r", "o", "o", "f", "e", "r", "s", " ", "i", "n", " ", "l", "o", "n", "d", "o", "n">>
rLondonRoofers   == <<"l", "o", "n", "d", "o", "n", " ", "r", "o", "o", "f", "e", "r", "s">>

\* C22: no valid unique candidate that the call dropped sorts before one
\* it returned; when the valid unique top-tier candidates are no more than
\* maxSearches all of them are returned; generateSearches('roofers', 1000,
\* true, false) holds 'roofers in london' and 'london roofers'.
C22_TruncationKeepsPrefix ==
    Returned =>
        LET valid   == ValidUniqueCandidates(gen.last.niche, gen.last.includeCities,
                                             gen.last.includeCounties)
            kept    == Range(gen.last.result)
            dropped == valid \ kept
            top     == {c \in valid : InTopTier(c)}
        IN  /\ \A d \in dropped : \A r \in kept : ~SortsBefore(d, r)
            /\ Cardinality(top) <= gen.last.maxSearches => top \subseteq kept
            /\ (gen.last.niche = nRoofers /\ gen.last.maxSearches = 1000
                    /\ gen.last.includeCities /\ ~gen.last.includeCounties)
                  => {rRoofersInLondon, rLondonRoofers} \subseteq kept

\* C23: no step of a reconcile call changes a row that is in the table: a
\* row that is marked used stays marked used, and the number of unused
\* rows grows by no more than the number of rows the step added.
C23_ExistingRowsUntouched ==
    [][ /\ \A s \in Keys(store) :
              CopiesIn(Row(s, TRUE), store) > 0 => CopiesIn(Row(s, TRUE), store') > 0
        /\ CountUnusedRows(store') - CountUnusedRows(store)
              <= CountRows(store') - CountRows(store) ]_vars

\* The requests of the call so far, and its position.
RequestsInOrder(c) ==
    LET S      == call[c].searches
        chunks == (Len(S) + ChunkSize - 1) \div ChunkSize
    IN  /\ h[c].nWrite <= 1
        /\ h[c].nCheck <= chunks
        /\ h[c].nQueried <= Len(S)
        /\ (call[c].pc = "writing" \/ h[c].nWrite = 1)
              => (h[c].nCheck = chunks /\ h[c].cerr = "")
        /\ h[c].cerr # ""
              => /\ call[c].pc = "responded"
                 /\ h[c].nCheck = (call[c].offset \div ChunkSize) + 1
                 /\ h[c].nWrite = 0
        /\ h[c].werr # "" => (call[c].pc = "responded" /\ h[c].nWrite = 1)

\* C24: in every call the existence checks are all complete before the
\* write is requested, at most one write is requested, and after a request
\* that failed the call makes no further request: it has ended.
C24_CheckThenWriteNoRetry ==
    \A c \in Clients : call[c].pc # "idle" => RequestsInOrder(c)

\* One call ended by a failed check after its first chunk, another by a
\* failed write after two chunks.
C24_Witness ==
    /\ \E c \in Clients :
          h[c].cerr # "" /\ h[c].nCheck = 2
    /\ \E c \in Clients :
          h[c].werr # "" /\ h[c].nCheck = 2 /\ h[c].nWrite = 1

\* The ten template expansions of the normalized niche n with the
\* lower-case location name l.
Expansions(n, l) ==
    { n \o <<" ", "i", "n", " ">> \o l,
      l \o <<" ">> \o n,
      <<"b", "e", "s", "t", " ">> \o n \o <<" ", "i", "n", " ">> \o l,
      n \o <<" ", "n", "e", "a", "r", " ">> \o l,
      l \o <<" ">> \o n \o <<" ", "s", "e", "r", "v", "i", "c", "e", "s">>,
      <<"t", "o", "p", " ">> \o n \o <<" ">> \o l,
      n \o <<" ">> \o l \o <<" ", "u", "k">>,
      <<"f", "i", "n", "d", " ">> \o n \o <<" ">> \o l,
      n \o <<" ", "c", "o", "m", "p", "a", "n", "i", "e", "s", " ">> \o l,
      l \o <<" ", "l", "o", "c", "a", "l", " ">> \o n }

\* The lower-case names of the locations selected by the latest call.
ActiveNames ==
    {toLowerCase(l) : l \in (IF gen.last.includeCities THEN Range(UK_CITIES) ELSE {})
                              \cup (IF gen.last.includeCounties THEN Range(UK_COUNTIES) ELSE {})}

\* C25: every returned string is one of the ten expansions of the
\* normalized niche with the name of a selected location, no expansion is
\* returned twice, and no expansion of a location whose name holds a
\* character other than a-z, 0-9, space and hyphen is returned.
C25_TemplateExpansions ==
    Returned =>
        LET r == gen.last.result
            n == Canonical(gen.last.niche)
        IN  /\ \A i \in 1..Len(r) : \E l \in ActiveNames : r[i] \in Expansions(n, l)
            /\ \A i, j \in 1..Len(r) : i # j => r[i] # r[j]
            /\ \A l \in ActiveNames :
                  (\E k \in 1..Len(l) : ~AllowedChar(l[k]))
                      => Expansions(n, l) \cap Range(r) = {}

\* A call returned every valid expansion of the cities and the counties,
\* among them a name listed twice, a name in both catalogs and a name with
\* an apostrophe.
C25_Witness ==
    /\ NotTruncated
    /\ gen.last.includeCities /\ gen.last.includeCounties
    /\ Len(gen.last.result) > 200

\* Some character of the niche, lower-cased, is not a letter a-z, a digit,
\* white space or a hyphen.
HasForeignChar(niche) ==
    \E k \in 1..Len(niche) :
        LET ch == LowerChar(niche[k])
        IN  ~(AllowedChar(ch) \/ IsSpace(ch))

\* C26: a call with a niche of valid length that holds such a character
\* (and with a location type selected) throws nothing and returns the
\* empty sequence.
C26_ForeignCharFiltersAll ==
    ( /\ gen.last.made
      /\ ValidNiche(gen.last.niche)
      /\ HasForeignChar(gen.last.niche)
      /\ (gen.last.includeCities \/ gen.last.includeCounties) )
    => /\ ~gen.last.threw
       /\ gen.last.error = ""
       /\ gen.last.result = <<>>

\* The niche 'a!' was given with the cities selected.
C26_Witness ==
    /\ gen.last.made
    /\ gen.last.niche = nBang
    /\ gen.last.includeCities
    /\ ~gen.last.threw

\* ---------------------------------------------------------------------
\* The trigger endpoint over its requests
\* ---------------------------------------------------------------------

\* Requests to the trigger endpoint in a behaviour.
MaxTriggers == 1

\* The bodies posted: null, or an object with the action missing, another
\* action or 'start_scraper', and the timestamp missing, null, empty or one
\* of two ISO strings.
TriggerBodies ==
    {NullTriggerBody} \cup
    [object : {TRUE},
     action : {JUndefined, JString(<<"s", "t", "o", "p">>), JString(sStartScraper)},
     timestamp : {JUndefined, JNull, JString(<<>>), JString(IsoTime(1)), JString(IsoTime(2))}]

Lookups ==
    {LookupFails(k) : k \in {"throws", "badJson", "null", "noRuns", "notArray"}}
        \cup {LookupRuns(<<>>),
              LookupRuns(<<WorkflowRun("completed", 7)>>),
              LookupRuns(<<WorkflowRun("completed", 7), WorkflowRun("queued", 8)>>),
              LookupRuns(<<WorkflowRun("in_progress", 12), WorkflowRun("queued", 7)>>),
              LookupRuns(<<WorkflowRun("in_progress", 0)>>)}

TriggerEnvs ==
    {e \in [token : BOOLEAN, dispatch : {"ok", "notOk", "throws"}, lookup : Lookups,
            now : Times, later : Times] : e.now <= e.later}

\* One request to the trigger endpoint.
PostTrigger(body, env) ==
    LET out == TriggerScraperPost(body, env)
    IN  /\ finder' = [finder EXCEPT !.dispatched = @ \o out.dispatched,
                                    !.request = [count |-> @.count + 1, body |-> body,
                                                 env |-> env, response |-> out.response,
                                                 dispatched |-> out.dispatched]]
        /\ UNCHANGED <<store, store0, gen, call, response, page, h, ncalls, marks, counted>>

NextTrigger ==
    /\ finder.request.count < MaxTriggers
    /\ \E body \in TriggerBodies, env \in TriggerEnvs : PostTrigger(body, env)

SpecTrigger == Init /\ [][NextTrigger]_vars

\* ---------------------------------------------------------------------
\* The Auto Business Finder page in use
\* ---------------------------------------------------------------------

\* What the trigger endpoint meets when the page calls it.
PageEnvs(now) ==
    [token : {TRUE}, dispatch : {"ok", "notOk"},
     lookup : {LookupFails("throws"), LookupRuns(<<WorkflowRun("queued", 8)>>)},
     now : {now}, later : {now}]

\* What a poll request started now will be answered with.
Answers(key) ==
    {"throws", "notOk"} \cup {IF finder.runs[key] = "absent" THEN "none" ELSE finder.runs[key]}

Poll(key, timer, from, answer) ==
    [key |-> key, timer |-> timer, from |-> from, answer |-> answer]

UnchangedRest == UNCHANGED <<store, store0, gen, call, response, page, h, ncalls, marks, counted>>

\* A click on Start: handleStartScraper up to the request to the endpoint.
ClickStart ==
    LET i == finder.nstarts + 1
    IN  /\ finder.ui.mounted
        /\ ~StartDisabled(finder.ui)
        /\ finder.nstarts < MaxStarts
        /\ finder' = [finder EXCEPT
              !.ui = [@ EXCEPT !.isLoading = TRUE, !.uiStatus = "initializing",
                               !.runKey = NewRunKey(i)],
              !.nstarts = i,
              !.starts[i] = [pc |-> "posting", key |-> NewRunKey(i)]]
        /\ UnchangedRest

\* The endpoint handles the request of the i-th click and handleStartScraper
\* goes on: on an error response it goes to its catch block, otherwise it
\* replaces the timer and sends the first poll request.
TriggerAnswered(i) ==
    /\ finder.starts[i].pc = "posting"
    /\ Cardinality(finder.polls) < MaxInFlight
    /\ \E env \in PageEnvs(i) :
         LET body == [object |-> TRUE, action |-> JString(sStartScraper),
                      timestamp |-> JString(finder.starts[i].key)]
             out  == TriggerScraperPost(body, env)
             data == out.response
             key  == IF Falsy(data.runKey) THEN finder.starts[i].key ELSE data.runKey.str
             base == [finder EXCEPT
                        !.dispatched = @ \o out.dispatched,
                        !.request = [count |-> @.count + 1, body |-> body, env |-> env,
                                     response |-> out.response,
                                     dispatched |-> out.dispatched]]
         IN  IF data.status # 200
             THEN finder' = [base EXCEPT
                     !.ui = SetState(@, StartFailed(@)),
                     !.starts[i].pc = "done",
                     !.notTriggered = @ \cup {finder.starts[i].key}]
             ELSE \E answer \in Answers(key) :
                    finder' = [base EXCEPT
                       !.ui = [SetState(@, [@ EXCEPT !.runKey = key]) EXCEPT !.pollRef = i],
                       !.timers = (@ \ {finder.ui.pollRef}) \cup {i},
                       !.timerKey[i] = key,
                       !.runs[key] = IF @ = "absent" THEN "none" ELSE @,
                       !.starts[i].pc = "kick",
                       !.polls = @ \cup {Poll(key, 0, i, answer)}]
    /\ UnchangedRest

\* The request to the endpoint fails on the network: fetch rejects and
\* handleStartScraper goes to its catch block.
TriggerUnreachable(i) ==
    /\ finder.starts[i].pc = "posting"
    /\ finder' = [finder EXCEPT
          !.ui = SetState(@, StartFailed(@)),
          !.starts[i].pc = "done",
          !.notTriggered = @ \cup {finder.starts[i].key}]
    /\ UnchangedRest

\* A timer fires: its callback sends a poll request for its run key.
TimerTick(tm) ==
    /\ tm \in finder.timers
    /\ Cardinality(finder.polls) < MaxInFlight
    /\ \E answer \in Answers(finder.timerKey[tm]) :
         finder' = [finder EXCEPT !.polls = @ \cup {Poll(finder.timerKey[tm], tm, 0, answer)}]
    /\ UnchangedRest

\* A click on Refresh: handleRefresh sends a poll request for the page's
\* run key, if it has one.
ClickRefresh ==
    /\ finder.ui.mounted
    /\ finder.ui.runKey # <<>>
    /\ Cardinality(finder.polls) < MaxInFlight
    /\ \E answer \in Answers(finder.ui.runKey) :
         finder' = [finder EXCEPT !.polls = @ \cup {Poll(finder.ui.runKey, 0, 0, answer)}]
    /\ UnchangedRest

\* A poll request is answered and fetchProgress goes on.  A rejection in the
\* first poll of handleStartScraper goes to that handler's catch block;
\* elsewhere it is dropped.
PollAnswered(p) ==
    /\ p \in finder.polls
    /\ LET terminal == p.answer \in {"completed", "failed"}
           clears   == FetchProgressClears(p.answer) /\ finder.ui.pollRef # 0
           set      == FetchProgressSets(finder.ui, p.answer)
           caught   == IF p.from # 0 /\ p.answer = "throws" THEN StartFailed(set) ELSE set
           ref      == IF clears THEN 0 ELSE finder.ui.pollRef
       IN  finder' = [finder EXCEPT
              !.polls = @ \ {p},
              !.ui = [SetState(@, caught) EXCEPT !.pollRef = ref],
              !.timers = IF clears THEN @ \ {finder.ui.pollRef} ELSE @,
              !.starts = IF p.from # 0 THEN [@ EXCEPT ![p.from].pc = "done"] ELSE @,
              !.reported = IF terminal /\ finder.ui.mounted THEN @ \cup {p.key} ELSE @,
              !.sawTerminal = IF terminal /\ p.timer # 0 THEN @ \cup {p.timer} ELSE @]
    /\ UnchangedRest

\* The scraper writes the progress row of its run.
ScraperProgress(key) ==
    /\ \E next \in {"initializing", "running", "completed", "failed"} :
         /\ \/ finder.runs[key] = "none" /\ next \in {"initializing", "failed"}
            \/ finder.runs[key] = "initializing" /\ next \in {"running", "failed"}
            \/ finder.runs[key] = "running" /\ next \in {"completed", "failed"}
         /\ finder' = [finder EXCEPT !.runs[key] = next]
    /\ UnchangedRest

\* The page is left: the effect's cleanup clears the timer in pollRef.
Unmount ==
    /\ finder.ui.mounted
    /\ finder' = [finder EXCEPT
          !.ui.mounted = FALSE,
          !.timers = IF finder.ui.pollRef # 0 THEN @ \ {finder.ui.pollRef} ELSE @]
    /\ UnchangedRest

NextFinder ==
    \/ ClickStart
    \/ \E i \in 1..MaxStarts : TriggerAnswered(i)
    \/ \E i \in 1..MaxStarts : TriggerUnreachable(i)
    \/ \E tm \in 1..MaxStarts : TimerTick(tm)
    \/ ClickRefresh
    \/ \E p \in finder.polls : PollAnswered(p)
    \/ \E key \in RunKeys : ScraperProgress(key)
    \/ Unmount

\* The page just opened.
InitFinder == InitGen /\ gen.locale = "en"

SpecFinder == InitFinder /\ [][NextFinder]_vars

\* The request the endpoint answered last.
LastRequest == gen.request

\* The body with the defaults of the omitted fields written out.
WithDefaults(body) ==
    [body EXCEPT !.maxSearches = IF @ = JUndefined THEN JNumber(1000) ELSE @,
                 !.includeCities = IF @ = JUndefined THEN JBoolean(TRUE) ELSE @,
                 !.includeCounties = IF @ = JUndefined THEN JBoolean(FALSE) ELSE @]

\* A response that carries an error and no result.
IsErrorResponse(r) ==
    /\ r.status = 400
    /\ ~r.success
    /\ r.error # ""
    /\ r.searches = <<>>

\* The request is one the endpoint has to reject before generating.
MustReject(body) ==
    LET m == WithDefaults(body).maxSearches
    IN  \/ ~body.object
        \/ body.niche.type # "string"
        \/ m.type # "number"
        \/ m.num < 100
        \/ m.num > 5000

\* C27: the generate endpoint rejects, with an error response and without
\* calling generateSearches, every request whose niche is missing or not a
\* string or whose maxSearches is not a number in [100, 5000]; an omitted
\* maxSearches, includeCities or includeCounties is answered as 1000, true
\* and false are; and an error raised by generateSearches comes back as an
\* error response carrying its message and no searches.
C27_EndpointValidation ==
    LastRequest.count > 0 =>
        LET body    == LastRequest.body
            r       == LastRequest.response
            full    == WithDefaults(body)
        IN  /\ MustReject(body) => IsErrorResponse(r) /\ ~LastRequest.called
            /\ body.object =>
                 r = GenerateSearchesPost(full, UK_CITIES, UK_COUNTIES, gen.locale).response
            /\ (~MustReject(body) /\ body.niche.str = <<>>) => IsErrorResponse(r)
            /\ (~MustReject(body) /\ body.niche.str # <<>>) =>
                 LET out == generateSearches(body.niche.str, full.maxSearches.num,
                                             full.includeCities.bool, full.includeCounties.bool,
                                             UK_CITIES, UK_COUNTIES, gen.locale)
                 IN  IF out.threw
                     THEN IsErrorResponse(r) /\ r.error = out.error
                     ELSE r.success /\ r.status = 200 /\ r.searches = out.result

\* A request that omits the three optional fields was answered with the
\* searches generated for its niche.
C27_Witness ==
    /\ LastRequest.count > 0
    /\ LastRequest.body.object
    /\ LastRequest.body.maxSearches = JUndefined
    /\ LastRequest.body.includeCities = JUndefined
    /\ LastRequest.body.includeCounties = JUndefined
    /\ LastRequest.response.success
    /\ Len(LastRequest.response.searches) > 100

\* The request the trigger endpoint answered last.
LastTrigger == finder.request

\* The caller supplied a timestamp: a string that is not empty.
TimestampSupplied(body) == body.timestamp.type = "string" /\ body.timestamp.str # <<>>

\* The request reached the workflow dispatch, and the dispatch succeeded.
DispatchSucceeded(t) ==
    /\ t.body.object
    /\ t.body.action = JString(sStartScraper)
    /\ t.env.token
    /\ t.env.dispatch = "ok"

\* The response reports an error.
IsTriggerError(r) == ~r.success /\ r.status \in {400, 500} /\ r.error # ""

\* C30: the trigger-scraper endpoint answers a request whose action is not
\* 'start_scraper' with an error and dispatches no workflow; it answers a
\* failed dispatch with an error; once the dispatch succeeded it answers
\* success whatever the run lookup did, with workflowId 'unknown' when the
\* lookup failed, and with a runKey that is the timestamp passed to the
\* workflow and, when the caller supplied a timestamp, that timestamp.
C30_TriggerEndpoint ==
    LastTrigger.count > 0 =>
        LET t == LastTrigger
            r == t.response
        IN  /\ (~t.body.object \/ t.body.action # JString(sStartScraper)) =>
                 IsTriggerError(r) /\ t.dispatched = <<>>
            /\ (t.body.object /\ t.body.action.type = "string"
                  /\ t.body.action # JString(sStartScraper)) => r.status = 400
            /\ (t.body.object /\ t.body.action = JString(sStartScraper)
                  /\ t.env.token /\ t.env.dispatch # "ok") =>
                 IsTriggerError(r) /\ t.dispatched = <<>>
            /\ DispatchSucceeded(t) =>
                 /\ r.success
                 /\ r.status = 200
                 /\ Len(t.dispatched) = 1
                 /\ t.env.lookup.kind # "runs" => r.workflowId = sUnknown
                 /\ r.runKey = t.dispatched[1].timestamp
                 /\ TimestampSupplied(t.body) => r.runKey = t.body.timestamp
                 /\ ~TimestampSupplied(t.body) => r.runKey = JString(IsoTime(t.env.now))

\* A dispatch succeeded for a caller that supplied a timestamp other than
\* the clock's reading, and the run lookup threw.
C30_Witness ==
    /\ LastTrigger.count > 0
    /\ DispatchSucceeded(LastTrigger)
    /\ TimestampSupplied(LastTrigger.body)
    /\ LastTrigger.body.timestamp # JString(IsoTime(LastTrigger.env.now))
    /\ LastTrigger.env.lookup.kind = "throws"
    /\ LastTrigger.response.success

\* The run key of the latest click on Start.
LatestKey == finder.starts[finder.nstarts].key

\* The run of the latest click is under way as far as the page was told: the
\* endpoint did not refuse it, and no poll answer has reported it completed
\* or failed.
LatestRunOpen ==
    /\ finder.nstarts > 0
    /\ LatestKey \notin finder.notTriggered
    /\ LatestKey \notin finder.reported

\* C28: on the Auto Business Finder page, while the run triggered last has
\* not been reported completed or failed, the Start control is disabled,
\* whatever the order of timer ticks, poll answers (also those for an
\* earlier run key) and a new start after a failed run.
C28_StartDisabledWhileRunning ==
    (finder.ui.mounted /\ LatestRunOpen) => StartDisabled(finder.ui)

\* Timers that are set and not cleared.
ActiveTimers == finder.timers

\* C29: on the Auto Business Finder page at most one polling timer is
\* active at a time; a timer whose poll was answered with a completed or
\* failed run is cleared, and so is the timer when the page is unmounted,
\* so that it sends no further poll request.
C29_OneTimerClearedAtEnd ==
    /\ Cardinality(ActiveTimers) <= 1
    /\ ActiveTimers \cap finder.sawTerminal = {}
    /\ ~finder.ui.mounted => ActiveTimers = {}

=============================================================================
